---- MODULE Spec2Model ----
(***************************************************************************)
(* The interactive grid-to-tone page (AnimatedHomepage) in its five source *)
(* variants:                                                               *)
(*   "preset"  src/unnamed/part_001          7 rows, 16 / 9 columns by     *)
(*                                           orientation, drum columns     *)
(*   "fixed"   src/unnamed/part_003          7 rows, 16 columns, drum      *)
(*                                           columns                       *)
(*   "dyn"     src/src/app/page copy 5.tsx   8 rows, columns from width    *)
(*   "cell150" src/unnamed/part_002:1-364    150 px cells, no highlights   *)
(*   "cell100" src/unnamed/part_002:366-622  100 px cells, particles only  *)
(*                                                                         *)
(* Units.  Times are integer milliseconds (Date.now()).  life is kept in   *)
(* hundredths (life 1 = 100; the IEEE doubles 1 - k*0.01 and 1 - k*0.02    *)
(* first become <= 0 at k = 100 and k = 50, as the integers do).           *)
(* A highlight's alpha is kept in thousandths and its scale in             *)
(* ten-thousandths, which makes 1 - elapsed/500 and 1 + 0.2*(1 - e/500)    *)
(* exact integers.  devicePixelRatio is 1.                                 *)
(***************************************************************************)
EXTENDS Integers, Sequences, FiniteSets, TLC

VARIABLES
  variant,            \* which source variant runs
  mounted,            \* the mount effects have run (listeners registered)
  win,                \* window.innerWidth / innerHeight
  canvas,             \* canvas.width / canvas.height
  columns,            \* let columns (preset), columnsRef (dyn), const (fixed)
  scaleRef,           \* scaleRef.current: semitone numbers i of baseFreq*2^(i/12)
  shapesRef,          \* shapesRef.current
  particlesRef,       \* particlesRef.current
  lastSoundTimeRef,   \* lastSoundTimeRef.current
  cellHighlightsRef,  \* cellHighlightsRef.current: [len, at]
  now,                \* Date.now()
  pending,            \* the debounce: last raw event and its arrival time
  animTimers,         \* due times of the armed setTimeout -> rAF(animate)
  nextId,             \* spawn serial number (identifies an entity)
  frameAt,            \* the Date.now() read by the last drawCellHighlights
  last,               \* what the last pipeline invocation decided (observed)
  sound,              \* the last playSound / playDrum dispatch (observed)
  budget,             \* raw events and resizes the environment may still make
  audioEnv,           \* the browser: isSecureContext, AudioContext present, failing
  host,               \* canvasRef attached, window listeners, mounts so far
  cellSizeRef,        \* cellSizeRef.current, the fraction num / den
  audioContextRef,    \* audioContextRef.current: 0 (null) or the context's number
  ctxCreated          \* audio contexts constructed so far (observed)

vars == << variant, mounted, win, canvas, columns, scaleRef, shapesRef,
           particlesRef, lastSoundTimeRef, cellHighlightsRef, now, pending,
           animTimers, nextId, frameAt, last, sound, budget,
           audioEnv, audioContextRef, ctxCreated, host, cellSizeRef >>

----------------------------------------------------------------------------
(* Program constants *)

rows == 7
rowsDyn == 8
columnsLandscape == 16
columnsPortrait == 9
noteRows == 5
highlightDuration == 500
soundGate == 100
debounceWait == 16
fps == 60
MAX_SHAPES == 100
MAX_PARTICLES == 100
MAX_PARTICLES_CELL == 200
cellSize150 == 150
cellSize100 == 100
lifeStart == 100
shapeDecay == 1
particleDecay == 2
alphaOne == 1000
scaleOne == 10000
baseFreq == 13081
cellSizeInitial == 150
canvasDefaultW == 300
canvasDefaultH == 150

Variants == {"preset", "fixed", "dyn", "cell150", "cell100"}
GridVariants == {"preset", "fixed", "dyn"}
DrumVariants == {"preset", "fixed"}

(* Bounds of the model *)
StartTime == 2000
MaxTicks == 3
TickStep == 60
MaxEvents == 2
MaxResizes == 1
MaxMounts == 2

None == [none |-> TRUE]

Min(a, b) == IF a < b THEN a ELSE b
Max(a, b) == IF a > b THEN a ELSE b

\* The value undefined, where a frequency (a semitone number >= 0) is expected.
Undefined == 0 - 1

(* Window sizes the environment resizes between, and pointer positions. *)
Landscape == [w |-> 1600, h |-> 700]
Portrait == [w |-> 450, h |-> 800]
Sizes == { Landscape, Portrait }
Points == { [x |-> 150, y |-> 50], [x |-> 0, y |-> 150],
            [x |-> 150, y |-> 150], [x |-> 250, y |-> 250],
            [x |-> 1590, y |-> 150], [x |-> 0, y |-> 690] }

----------------------------------------------------------------------------
(* Layout and scale *)

Rows(v) == IF v = "dyn" THEN rowsDyn ELSE rows

orientationIsPortrait(w) == w.h > w.w

\* Mutant: the note count is taken over all columns, drum columns included.
getLayoutParams_AllColumns(w) ==
  LET currentColumns == IF orientationIsPortrait(w) THEN columnsPortrait
                                                    ELSE columnsLandscape
  IN  [ currentColumns |-> currentColumns, noteCols |-> currentColumns,
        noteRows |-> noteRows, totalNotes |-> noteRows * currentColumns ]

getLayoutParams(w) ==
  LET currentColumns == IF orientationIsPortrait(w) THEN columnsPortrait
                                                    ELSE columnsLandscape
      noteCols == currentColumns - 2
  IN  [ currentColumns |-> currentColumns, noteCols |-> noteCols,
        noteRows |-> noteRows, totalNotes |-> noteRows * noteCols ]

\* Mutant (generateScale_Octaves): one entry per octave, not per semitone.
\* Array.from({length: total}, (_, i) => baseFreq * 2^(i/12)): entry i + 1
\* of the sequence is element i of the array, kept as its semitone number i.
\* Mutant: the exponent is i / 6 (whole tones).
generateScale_WholeTones(total) == [ i \in 1..total |-> 2 * (i - 1) ]

generateScale_Octaves(total) == [ i \in 1..(total \div 12) |-> i - 1 ]

generateScale(total) == [ i \in 1..total |-> i - 1 ]

\* The frequency of scale entry i, baseFreq * 2^(i/12): the base in
\* hundredths of a hertz and the exponent in twelfths.
ToneOf(i) == [ base |-> baseFreq, twelfths |-> i ]

\* arr[i] of a JavaScript array: undefined outside [0, length).
At(arr, i) == IF i >= 0 /\ i < Len(arr) THEN arr[i + 1] ELSE Undefined

\* Math.floor(p / (extent / n)) for extent > 0, on exact rationals.
CellOf(p, extent, n) == (p * n) \div extent

\* Mutant: the handler reads cellSizeRef.current without setting it first.
cellSizeNow_Stale(n) == cellSizeRef

\* cellSizeRef.current = canvas.height / rows, as a handler sets it before
\* it reads it: the fraction canvas.height / n.
cellSizeNow(n) == [ num |-> canvas.h, den |-> n ]

\* Math.floor(p / cellSizeRef.current)
CellAt(p, size) == CellOf(p, size.num, size.den)

\* Math.floor(width / (height / n)).
ColumnsOf(cv, n) == (cv.w * n) \div cv.h

\* Mutant: the gate opens at exactly 100 ms (>= instead of >).
gateOpen_AtLeast == now - lastSoundTimeRef >= soundGate

\* Mutant: the gate compares against 10 ms instead of 100 ms.
gateOpen_10ms == now - lastSoundTimeRef > 10

gateOpen == now - lastSoundTimeRef > soundGate

\* Shapes and particles pushed by one interaction that spawns.
ShapesPerHit(v) == IF v = "cell100" THEN 0 ELSE 3
\* Mutant: every variant pushes 3 particles.
ParticlesPerHit_Three(v) == 3

ParticlesPerHit(v) == IF v = "cell100" THEN 5 ELSE IF v = "cell150" THEN 3 ELSE 2

----------------------------------------------------------------------------
(* What one invocation of the interaction pipeline decides, per variant:   *)
(* the cell, the sound dispatched (after the gate), the frequency handed   *)
(* to playSound, the highlight index written (-1: none) and the spawns.    *)

Outcome(cx, cy, cols, slen, zone, snd, f, h, ns, np) ==
  [ t |-> now, cellX |-> cx, cellY |-> cy, cols |-> cols, scaleLen |-> slen,
    zone |-> zone, sound |-> snd, freq |-> f, hl |-> h,
    nShapes |-> ns, nParticles |-> np, lastBefore |-> lastSoundTimeRef ]

\* The outcome o, tagged with the pointer position it was computed for.
Tagged(o, x, y) == [ x |-> x, y |-> y ] @@ o

\* Mutant: the drum columns are not classified; every cell of rows 1..5
\* is looked up as a note (the layout of the variant without drum zones).
LogicPreset_NoDrumZone(x, y) ==
  LET cellX == CellAt(x, cellSizeNow(rows))
      cellY == CellAt(y, cellSizeNow(rows))
      noteIndex == (cellY - 1) * columns + cellX
      slen == Len(scaleRef)
  IN  IF cellX >= 0 /\ cellX < columns /\ cellY >= 1 /\ cellY <= 5 /\ noteIndex < slen
        THEN Outcome(cellX, cellY, columns, slen, "note",
                     IF gateOpen THEN "note" ELSE "none",
                     At(scaleRef, noteIndex), cellY * columns + cellX, ShapesPerHit("preset"), ParticlesPerHit("preset"))
        ELSE Outcome(cellX, cellY, columns, slen, "outside", "none", Undefined, -1, ShapesPerHit("preset"), ParticlesPerHit("preset"))

\* Mutant: the drum columns are tested before the silent rows.
LogicPreset_DrumFirst(x, y) ==
  LET cellX == CellAt(x, cellSizeNow(rows))
      cellY == CellAt(y, cellSizeNow(rows))
      noteColsDynamic == columns - 2
      noteIndex == (cellY - 1) * noteColsDynamic + (cellX - 1)
      slen == Len(scaleRef)
  IN  IF cellX = 0 \/ cellX = columns - 1
        THEN Outcome(cellX, cellY, columns, slen, "drum",
                     IF gateOpen THEN "drum" ELSE "none", Undefined, -1, ShapesPerHit("preset"), ParticlesPerHit("preset"))
      ELSE IF cellY = 0 \/ cellY = rows - 1
        THEN Outcome(cellX, cellY, columns, slen, "silent", "none", Undefined, -1, ShapesPerHit("preset"), ParticlesPerHit("preset"))
      ELSE IF cellX >= 1 /\ cellX <= noteColsDynamic /\ cellY >= 1 /\ cellY <= 5
        THEN IF noteIndex < slen
               THEN Outcome(cellX, cellY, columns, slen, "note",
                            IF gateOpen THEN "note" ELSE "none",
                            At(scaleRef, noteIndex), cellY * columns + cellX, ShapesPerHit("preset"), ParticlesPerHit("preset"))
               ELSE Outcome(cellX, cellY, columns, slen, "stale", "none",
                            Undefined, -1, ShapesPerHit("preset"), ParticlesPerHit("preset"))
      ELSE Outcome(cellX, cellY, columns, slen, "outside", "none", Undefined, -1, ShapesPerHit("preset"), ParticlesPerHit("preset"))

LogicPreset(x, y) ==
  LET cellX == CellAt(x, cellSizeNow(rows))
      cellY == CellAt(y, cellSizeNow(rows))
      noteColsDynamic == columns - 2
      noteIndex == (cellY - 1) * noteColsDynamic + (cellX - 1)
      slen == Len(scaleRef)
  IN  IF cellY = 0 \/ cellY = rows - 1
        THEN Outcome(cellX, cellY, columns, slen, "silent", "none", Undefined, -1, ShapesPerHit("preset"), ParticlesPerHit("preset"))
      ELSE IF cellX = 0 \/ cellX = columns - 1
        THEN Outcome(cellX, cellY, columns, slen, "drum",
                     IF gateOpen THEN "drum" ELSE "none", Undefined, -1, ShapesPerHit("preset"), ParticlesPerHit("preset"))
      ELSE IF cellX >= 1 /\ cellX <= noteColsDynamic /\ cellY >= 1 /\ cellY <= 5
        THEN IF noteIndex < slen
               THEN Outcome(cellX, cellY, columns, slen, "note",
                            IF gateOpen THEN "note" ELSE "none",
                            At(scaleRef, noteIndex), cellY * columns + cellX, ShapesPerHit("preset"), ParticlesPerHit("preset"))
               ELSE Outcome(cellX, cellY, columns, slen, "stale", "none",
                            Undefined, -1, ShapesPerHit("preset"), ParticlesPerHit("preset"))
      ELSE Outcome(cellX, cellY, columns, slen, "outside", "none", Undefined, -1, ShapesPerHit("preset"), ParticlesPerHit("preset"))

\* Mutant: the note index is taken over all 16 columns of a row.
LogicFixed_AllColumns(x, y) ==
  LET cellX == CellAt(x, cellSizeNow(rows))
      cellY == CellAt(y, cellSizeNow(rows))
      noteIndex == (cellY - 1) * columns + (cellX - 1)
      slen == Len(scaleRef)
  IN  IF cellY = 0 \/ cellY = rows - 1
        THEN Outcome(cellX, cellY, columns, slen, "silent", "none", Undefined, -1, ShapesPerHit("fixed"), ParticlesPerHit("fixed"))
      ELSE IF cellX = 0 \/ cellX = columns - 1
        THEN Outcome(cellX, cellY, columns, slen, "drum",
                     IF gateOpen THEN "drum" ELSE "none", Undefined, -1, ShapesPerHit("fixed"), ParticlesPerHit("fixed"))
      ELSE IF cellX >= 1 /\ cellX <= 14 /\ cellY >= 1 /\ cellY <= 5
        THEN Outcome(cellX, cellY, columns, slen, "note",
                     IF gateOpen THEN "note" ELSE "none",
                     At(scaleRef, noteIndex), cellY * columns + cellX, ShapesPerHit("fixed"), ParticlesPerHit("fixed"))
      ELSE Outcome(cellX, cellY, columns, slen, "outside", "none", Undefined, -1, ShapesPerHit("fixed"), ParticlesPerHit("fixed"))

LogicFixed(x, y) ==
  LET cellX == CellAt(x, cellSizeNow(rows))
      cellY == CellAt(y, cellSizeNow(rows))
      noteCols == columnsLandscape - 2
      noteIndex == (cellY - 1) * noteCols + (cellX - 1)
      slen == Len(scaleRef)
  IN  IF cellY = 0 \/ cellY = rows - 1
        THEN Outcome(cellX, cellY, columns, slen, "silent", "none", Undefined, -1, ShapesPerHit("fixed"), ParticlesPerHit("fixed"))
      ELSE IF cellX = 0 \/ cellX = columns - 1
        THEN Outcome(cellX, cellY, columns, slen, "drum",
                     IF gateOpen THEN "drum" ELSE "none", Undefined, -1, ShapesPerHit("fixed"), ParticlesPerHit("fixed"))
      ELSE IF cellX >= 1 /\ cellX <= 14 /\ cellY >= 1 /\ cellY <= 5
        THEN Outcome(cellX, cellY, columns, slen, "note",
                     IF gateOpen THEN "note" ELSE "none",
                     At(scaleRef, noteIndex), cellY * columns + cellX, ShapesPerHit("fixed"), ParticlesPerHit("fixed"))
      ELSE Outcome(cellX, cellY, columns, slen, "outside", "none", Undefined, -1, ShapesPerHit("fixed"), ParticlesPerHit("fixed"))

\* Mutant: the column is not tested against the column count.
LogicDyn_NoUpperBound(x, y) ==
  LET cols == ColumnsOf(canvas, rowsDyn)
      scale == generateScale(rowsDyn * cols)
      cellX == CellAt(x, cellSizeNow(rowsDyn))
      cellY == CellAt(y, cellSizeNow(rowsDyn))
      cellIndex == cellY * cols + cellX
  IN  IF cellX >= 0 /\ cellY >= 0 /\ cellY < rowsDyn /\ cellIndex < Len(scale)
        THEN Outcome(cellX, cellY, cols, Len(scale), "note",
                     IF gateOpen THEN "note" ELSE "none",
                     At(scale, cellIndex), cellIndex, ShapesPerHit("dyn"), ParticlesPerHit("dyn"))
      ELSE Outcome(cellX, cellY, cols, Len(scale), "outside", "none", Undefined, -1, ShapesPerHit("dyn"), ParticlesPerHit("dyn"))

LogicDyn(x, y) ==
  LET cols == ColumnsOf(canvas, rowsDyn)
      scale == generateScale(rowsDyn * cols)
      cellX == CellAt(x, cellSizeNow(rowsDyn))
      cellY == CellAt(y, cellSizeNow(rowsDyn))
      cellIndex == cellY * cols + cellX
  IN  IF cellX >= 0 /\ cellX < cols /\ cellY >= 0 /\ cellY < rowsDyn
         /\ cellIndex < Len(scale)
        THEN Outcome(cellX, cellY, cols, Len(scale), "note",
                     IF gateOpen THEN "note" ELSE "none",
                     At(scale, cellIndex), cellIndex, ShapesPerHit("dyn"), ParticlesPerHit("dyn"))
      ELSE Outcome(cellX, cellY, cols, Len(scale), "outside", "none", Undefined, -1, ShapesPerHit("dyn"), ParticlesPerHit("dyn"))

LogicCell150(x, y) ==
  LET cols == canvas.w \div cellSize150
      rws == canvas.h \div cellSize150
      effectiveRows == Max(0, rws - 3)
      scale == generateScale(cols * effectiveRows)
      cellX == x \div cellSize150
      cellY == y \div cellSize150
      cellIndex == cellY * cols + cellX
  IN  IF cellY < effectiveRows /\ cellY >= 0 /\ cellX >= 0 /\ cellX < cols
         /\ cellIndex < Len(scale)
        THEN Outcome(cellX, cellY, cols, Len(scale), "note",
                     IF gateOpen THEN "note" ELSE "none",
                     At(scale, cellIndex), -1, ShapesPerHit("cell150"), ParticlesPerHit("cell150"))
      ELSE Outcome(cellX, cellY, cols, Len(scale), "outside", "none", Undefined, -1, ShapesPerHit("cell150"), ParticlesPerHit("cell150"))

LogicCell100(x, y) ==
  LET cols == canvas.w \div cellSize100
      rws == canvas.h \div cellSize100
      scale == generateScale(cols * rws)
      cellX == x \div cellSize100
      cellY == y \div cellSize100
      cellIndex == cellY * cols + cellX
  IN  IF cellX < 0 \/ cellX >= cols \/ cellY < 0 \/ cellY >= rws
        THEN Outcome(cellX, cellY, cols, Len(scale), "outside", "none", Undefined, -1, 0, 0)
      ELSE Outcome(cellX, cellY, cols, Len(scale), "note",
                   IF gateOpen THEN "note" ELSE "none",
                   At(scale, cellIndex), -1, ShapesPerHit("cell100"), ParticlesPerHit("cell100"))

----------------------------------------------------------------------------
(* Entity pools *)

\* k pushes of createShape / createParticle: life 1, serial numbers from id.
Spawn(k, id) == [ i \in 1..k |-> [ id |-> id + i - 1, life |-> lifeStart ] ]

\* Mutant: an entity whose life has reached exactly 0 is kept.
Aged_KeepsZero(pool, decay) ==
  LET aged == [ i \in 1..Len(pool) |-> [ pool[i] EXCEPT !.life = @ - decay ] ]
  IN  SelectSeq(aged, LAMBDA e : e.life >= 0)

\* pool.filter(e => { e.life -= decay; ...; return e.life > 0 })
Aged(pool, decay) ==
  LET aged == [ i \in 1..Len(pool) |-> [ pool[i] EXCEPT !.life = @ - decay ] ]
  IN  SelectSeq(aged, LAMBDA e : e.life > 0)

\* Mutant: the trim keeps the first max entries (slice(0, max)).
Trimmed_KeepsOldest(pool, max) ==
  IF Len(pool) > max THEN SubSeq(pool, 1, max) ELSE pool

\* if (pool.length > max) pool = pool.slice(-max)
Trimmed(pool, max) ==
  IF Len(pool) > max THEN SubSeq(pool, Len(pool) - max + 1, Len(pool)) ELSE pool

MaxParticles(v) == IF v \in {"cell150", "cell100"} THEN MAX_PARTICLES_CELL
                                                    ELSE MAX_PARTICLES

\* Mutant: the shape pool is aged but never trimmed.
AnimateShapes_NoTrim(pool) == Aged(pool, shapeDecay)

AnimateShapes(pool) == Trimmed(Aged(pool, shapeDecay), MAX_SHAPES)
AnimateParticles(pool, v) == Trimmed(Aged(pool, particleDecay), MaxParticles(v))

----------------------------------------------------------------------------
(* Cell highlights: [len |-> array length, at |-> index -> CellHighlight] *)

NoHighlights == [ len |-> 0, at |-> << >> ]

\* cellHighlightsRef.current[i] = {alpha: 1, scale: 1.2, time: currentTime}
SetHighlight(h, i, t) ==
  [ len |-> Max(h.len, i + 1),
    at  |-> [ j \in (DOMAIN h.at) \cup {i} |->
                IF j = i THEN [ alpha |-> alphaOne, scale |-> 12000, time |-> t ]
                         ELSE h.at[j] ] ]

\* Mutant: a highlight older than highlightDuration is left as it is.
Decayed_NoReset(ch, t) ==
  LET elapsed == t - ch.time
  IN  IF ch.alpha <= 0 THEN ch
      ELSE IF elapsed > highlightDuration THEN ch
      ELSE [ ch EXCEPT !.alpha = alphaOne - (alphaOne * elapsed) \div highlightDuration,
                       !.scale = scaleOne + (2000 * (highlightDuration - elapsed))
                                              \div highlightDuration ]

\* One highlight as drawCellHighlights leaves it at time t.
Decayed(ch, t) ==
  LET elapsed == t - ch.time
  IN  IF ch.alpha <= 0 THEN ch
      ELSE IF elapsed > highlightDuration THEN [ ch EXCEPT !.alpha = 0 ]
      ELSE [ ch EXCEPT !.alpha = alphaOne - (alphaOne * elapsed) \div highlightDuration,
                       !.scale = scaleOne + (2000 * (highlightDuration - elapsed))
                                              \div highlightDuration ]

\* drawCellHighlights: the array is cut (or padded) to totalCells entries,
\* then every entry below totalCells is decayed.
drawCellHighlights(h, totalCells, t) ==
  LET kept == { j \in DOMAIN h.at : j < totalCells }
  IN  [ len |-> totalCells, at |-> [ j \in kept |-> Decayed(h.at[j], t) ] ]

----------------------------------------------------------------------------
(* The audio calls.  fault is what the browser does to this call: nothing, *)
(* the AudioContext constructor throws, or creating a node throws.         *)

WorkingAudio == [ secure |-> TRUE, supported |-> TRUE, faulty |-> FALSE ]

AudioEnvs == [ secure : BOOLEAN, supported : BOOLEAN, faulty : BOOLEAN ]

Faults == IF audioEnv.faulty THEN { "none", "constructor", "node" } ELSE { "none" }

\* How a call ended ("skipped": returned before any audio work; "started":
\* the oscillator was started; "absorbed": an exception was caught inside;
\* "thrown": an exception left the call), audioContextRef.current after
\* it, and whether it constructed a context.
AudioResult(res, ref, made) == [ audio |-> res, ctx |-> ref, created |-> made ]

playSound(fault) ==
  IF ~audioEnv.secure
    THEN AudioResult("skipped", audioContextRef, FALSE)
  ELSE IF audioContextRef = 0 /\ ~audioEnv.supported
    THEN AudioResult("skipped", audioContextRef, FALSE)
  ELSE IF audioContextRef = 0 /\ fault = "constructor"
    THEN AudioResult("absorbed", audioContextRef, FALSE)
  ELSE LET made == audioContextRef = 0
           ref == IF made THEN ctxCreated + 1 ELSE audioContextRef
       IN  IF fault = "node" THEN AudioResult("absorbed", ref, made)
                             ELSE AudioResult("started", ref, made)

\* Mutant: playDrum constructs a context of its own on every call.
playDrum_OwnContext(fault) ==
  IF ~audioEnv.supported
    THEN AudioResult("skipped", audioContextRef, FALSE)
  ELSE IF fault = "constructor"
    THEN AudioResult("thrown", audioContextRef, FALSE)
  ELSE IF fault = "node" THEN AudioResult("thrown", ctxCreated + 1, TRUE)
                         ELSE AudioResult("started", ctxCreated + 1, TRUE)

playDrum(fault) ==
  IF audioContextRef = 0 /\ ~audioEnv.supported
    THEN AudioResult("skipped", audioContextRef, FALSE)
  ELSE IF audioContextRef = 0 /\ fault = "constructor"
    THEN AudioResult("thrown", audioContextRef, FALSE)
  ELSE LET made == audioContextRef = 0
           ref == IF made THEN ctxCreated + 1 ELSE audioContextRef
       IN  IF fault = "node" THEN AudioResult("thrown", ref, made)
                             ELSE AudioResult("started", ref, made)

\* The outcome o together with how its audio call, if any, ended.
Heard(o, fault) ==
  o @@ ( IF o.sound = "note" THEN playSound(fault)
         ELSE IF o.sound = "drum" THEN playDrum(fault)
         ELSE AudioResult("none", audioContextRef, FALSE) )

----------------------------------------------------------------------------
(* Observation of the last pipeline invocation and the last dispatch *)

\* Mutant: 1 - y / height, without the floor.
Volume_Linear(y, height) == [ num |-> 10 * height - 10 * y, den |-> 10 * height ]

\* Math.max(0.1, 1 - (y / canvas.height) * 0.9), kept exactly as the
\* fraction num / den with den = 10 * canvas.height.
Volume(y, height) == [ num |-> Max(height, 10 * height - 9 * y), den |-> 10 * height ]

Dispatch(o) == [ kind |-> o.sound, t |-> o.t, freq |-> o.freq,
                 volume |-> Volume(o.y, canvas.h) ]

----------------------------------------------------------------------------
(* Initial state: the component is rendered, its effects have not run. *)

InitRefs ==
  /\ variant \in Variants
  /\ mounted = FALSE
  /\ win \in Sizes
  /\ canvas = [ w |-> canvasDefaultW, h |-> canvasDefaultH ]
  /\ columns = IF variant \in DrumVariants THEN columnsLandscape ELSE 0
  /\ scaleRef = << >>
  /\ shapesRef = << >>
  /\ particlesRef = << >>
  /\ lastSoundTimeRef = 0
  /\ cellHighlightsRef = NoHighlights
  /\ now = StartTime
  /\ pending = None
  /\ animTimers = << >>
  /\ nextId = 1
  /\ frameAt = 0
  /\ last = None
  /\ sound = None
  /\ budget = [ events |-> MaxEvents, resizes |-> MaxResizes ]
  /\ audioContextRef = 0
  /\ ctxCreated = 0
  /\ host = [ attached |-> TRUE, resize |-> {}, error |-> {}, mounts |-> 0 ]
  /\ cellSizeRef = [ num |-> cellSizeInitial, den |-> 1 ]


\* The page in a browser whose audio works.
Init == InitRefs /\ audioEnv = WorkingAudio

----------------------------------------------------------------------------
(* animate: one frame step on canvas cv with column count cols, re-arming  *)
(* its timer (setTimeout(1000 / fps) -> requestAnimationFrame).            *)

FrameDelay == 1000 \div fps

\* Mutant: the next frame is armed only while something is left to draw.
animate_IdleStop(cv, cols, timers) ==
  LET cols1 == IF variant = "dyn" THEN ColumnsOf(cv, rowsDyn) ELSE cols
  IN  /\ columns' = cols1
      /\ IF variant \in GridVariants
           THEN /\ cellHighlightsRef' =
                     drawCellHighlights(cellHighlightsRef, Rows(variant) * cols1, now)
                /\ frameAt' = now
           ELSE UNCHANGED << cellHighlightsRef, frameAt >>
      /\ shapesRef' = IF variant = "cell100" THEN shapesRef
                                             ELSE AnimateShapes(shapesRef)
      /\ particlesRef' = AnimateParticles(particlesRef, variant)
      /\ animTimers' = IF shapesRef' = << >> /\ particlesRef' = << >>
                         THEN timers
                         ELSE Append(timers, now + FrameDelay)
      /\ cellSizeRef' = IF variant \in GridVariants
                          THEN [ num |-> cv.h, den |-> Rows(variant) ]
                          ELSE cellSizeRef

animate(cv, cols, timers) ==
  LET cols1 == IF variant = "dyn" THEN ColumnsOf(cv, rowsDyn) ELSE cols
  IN  /\ columns' = cols1
      /\ IF variant \in GridVariants
           THEN /\ cellHighlightsRef' =
                     drawCellHighlights(cellHighlightsRef, Rows(variant) * cols1, now)
                /\ frameAt' = now
           ELSE UNCHANGED << cellHighlightsRef, frameAt >>
      /\ shapesRef' = IF variant = "cell100" THEN shapesRef
                                             ELSE AnimateShapes(shapesRef)
      /\ particlesRef' = AnimateParticles(particlesRef, variant)
      /\ animTimers' = Append(timers, now + FrameDelay)
      /\ cellSizeRef' = IF variant \in GridVariants
                          THEN [ num |-> cv.h, den |-> Rows(variant) ]
                          ELSE cellSizeRef

\* updateLayoutAndScale (preset); the other variants only size the canvas.
LayoutColumns(w) == IF variant = "preset" THEN getLayoutParams(w).currentColumns
                                          ELSE columns

\* Mutant: a scale once generated is kept across resizes.
LayoutScale_Keep(w) ==
  IF variant = "preset" /\ scaleRef = << >>
    THEN generateScale(getLayoutParams(w).totalNotes)
    ELSE scaleRef

LayoutScale(w) == IF variant = "preset" THEN generateScale(getLayoutParams(w).totalNotes)
                                        ELSE scaleRef

\* window.addEventListener(kind, handler): the handler joins the registered
\* ones.  A handler is named by the number of the mount that created it.
addEventListener(registered, handler) == registered \cup { handler }

removeEventListener_NewHandler(registered, handler) == registered \ { handler + 1 }

\* window.removeEventListener(kind, handler): removes that very function.
removeEventListener(registered, handler) == registered \ { handler }

\* The mount effects: (fixed: scaleRef.current = generateScale();) size the
\* canvas, animate(), addEventListener('resize'); the second effect
\* addEventListener('error').
Mount ==
  /\ ~mounted
  /\ host.attached
  /\ host.mounts < MaxMounts
  /\ mounted' = TRUE
  /\ canvas' = win
  /\ scaleRef' = IF variant = "fixed" THEN generateScale(noteRows * (columnsLandscape - 2))
                                      ELSE LayoutScale(win)
  /\ animate(win, LayoutColumns(win), animTimers)
  /\ host' = [ host EXCEPT !.mounts = @ + 1,
                           !.resize = addEventListener(@, host.mounts + 1),
                           !.error = addEventListener(@, host.mounts + 1) ]
  /\ UNCHANGED << variant, win, lastSoundTimeRef, now, pending, nextId, last, sound, budget,
                  audioEnv, audioContextRef, ctxCreated >>

\* The effects' cleanup functions: each removes the listener its own effect
\* run registered.  React runs them when it tears the effects down; detach
\* tells whether the component leaves the page (canvasRef.current becomes
\* null) or the effects are about to run again on the same component.
Teardown(detach) ==
  /\ mounted
  /\ mounted' = FALSE
  /\ host' = [ host EXCEPT !.attached = ~detach,
                           !.resize = removeEventListener(@, host.mounts),
                           !.error = removeEventListener(@, host.mounts) ]
  /\ UNCHANGED << variant, win, canvas, columns, scaleRef, shapesRef, particlesRef,
                  lastSoundTimeRef, cellHighlightsRef, now, pending, animTimers,
                  nextId, frameAt, last, sound, budget, audioEnv, audioContextRef,
                  ctxCreated, cellSizeRef >>

\* The component is removed from the page.
Unmount == Teardown(TRUE)

\* The effects are torn down to be run again (the component stays).
Cleanup == Teardown(FALSE)

\* The window is resized to sz and handleResize runs.
Resize(sz) ==
  /\ mounted
  /\ sz # win
  /\ budget.resizes > 0
  /\ budget' = [ budget EXCEPT !.resizes = @ - 1 ]
  /\ win' = sz
  /\ canvas' = sz
  /\ columns' = LayoutColumns(sz)
  /\ scaleRef' = LayoutScale(sz)
  /\ UNCHANGED << variant, mounted, shapesRef, particlesRef, lastSoundTimeRef,
                  cellHighlightsRef, now, pending, animTimers, nextId, frameAt,
                  last, sound,
                  audioEnv, audioContextRef, ctxCreated, host, cellSizeRef >>

\* A frame: an armed animate timer whose delay has passed runs animate.
Frame ==
  \E i \in 1..Len(animTimers) :
    /\ host.attached
    /\ now >= animTimers[i]
    /\ animate(canvas, columns,
               SubSeq(animTimers, 1, i - 1) \o SubSeq(animTimers, i + 1, Len(animTimers)))
    /\ UNCHANGED << variant, mounted, win, canvas, scaleRef, lastSoundTimeRef, now,
                    pending, nextId, last, sound, budget,
                  audioEnv, audioContextRef, ctxCreated, host >>

\* An armed animate timer runs after the component left the page:
\* canvasRef.current is null and animate returns at once.
FrameDetached ==
  \E i \in 1..Len(animTimers) :
    /\ ~host.attached
    /\ now >= animTimers[i]
    /\ animTimers' = SubSeq(animTimers, 1, i - 1) \o SubSeq(animTimers, i + 1, Len(animTimers))
    /\ UNCHANGED << variant, mounted, win, canvas, columns, scaleRef, shapesRef,
                    particlesRef, lastSoundTimeRef, cellHighlightsRef, now, pending,
                    nextId, frameAt, last, sound, budget, audioEnv, audioContextRef,
                    ctxCreated, host, cellSizeRef >>

\* Time passes (no armed frame is left overdue: frames run on time).
Tick ==
  /\ host.mounts > 0
  /\ \A i \in 1..Len(animTimers) : animTimers[i] > now
  /\ now + TickStep <= StartTime + MaxTicks * TickStep
  /\ now' = now + TickStep
  /\ UNCHANGED << variant, mounted, win, canvas, columns, scaleRef, shapesRef,
                  particlesRef, lastSoundTimeRef, cellHighlightsRef, pending,
                  animTimers, nextId, frameAt, last, sound, budget,
                  audioEnv, audioContextRef, ctxCreated, host, cellSizeRef >>

\* Mutant: a raw event that finds a call pending is dropped (the first event
\* of a burst and its wait are kept).
RawEvent_KeepsFirst(x, y) ==
  /\ mounted
  /\ budget.events > 0
  /\ budget' = [ budget EXCEPT !.events = @ - 1 ]
  /\ pending' = IF pending = None THEN [ x |-> x, y |-> y, at |-> now ] ELSE pending
  /\ UNCHANGED << variant, mounted, win, canvas, columns, scaleRef, shapesRef,
                  particlesRef, lastSoundTimeRef, cellHighlightsRef, now,
                  animTimers, nextId, frameAt, last, sound,
                  audioEnv, audioContextRef, ctxCreated, host, cellSizeRef >>

\* A raw mousemove / touchmove at (x, y): handleInteraction calls the
\* debounced function, which keeps the event and restarts its wait.
RawEvent(x, y) ==
  /\ mounted
  /\ budget.events > 0
  /\ budget' = [ budget EXCEPT !.events = @ - 1 ]
  /\ pending' = [ x |-> x, y |-> y, at |-> now ]
  /\ UNCHANGED << variant, mounted, win, canvas, columns, scaleRef, shapesRef,
                  particlesRef, lastSoundTimeRef, cellHighlightsRef, now,
                  animTimers, nextId, frameAt, last, sound,
                  audioEnv, audioContextRef, ctxCreated, host, cellSizeRef >>

\* Mutant: a drum hit does not record its time in lastSoundTimeRef.
Apply_NoDrumStamp(o) ==
  /\ shapesRef' = shapesRef \o Spawn(o.nShapes, nextId)
  /\ particlesRef' = particlesRef \o Spawn(o.nParticles, nextId + o.nShapes)
  /\ nextId' = nextId + o.nShapes + o.nParticles
  /\ lastSoundTimeRef' = IF o.sound = "note" THEN o.t ELSE lastSoundTimeRef
  /\ audioContextRef' = o.ctx
  /\ ctxCreated' = ctxCreated + IF o.created THEN 1 ELSE 0
  /\ cellHighlightsRef' = IF o.hl >= 0 THEN SetHighlight(cellHighlightsRef, o.hl, o.t)
                                       ELSE cellHighlightsRef
  /\ columns' = IF variant = "dyn" THEN o.cols ELSE columns
  /\ last' = o
  /\ cellSizeRef' = IF variant \in GridVariants THEN cellSizeNow(Rows(variant))
                                               ELSE cellSizeRef
  /\ sound' = IF o.sound # "none" THEN Dispatch(o) ELSE sound

\* Mutant: the highlight is written inside the gate, only when the tone plays.
Apply_HighlightOnPlay(o) ==
  /\ shapesRef' = shapesRef \o Spawn(o.nShapes, nextId)
  /\ particlesRef' = particlesRef \o Spawn(o.nParticles, nextId + o.nShapes)
  /\ nextId' = nextId + o.nShapes + o.nParticles
  /\ lastSoundTimeRef' = IF o.sound # "none" /\ o.audio # "thrown"
                            THEN o.t ELSE lastSoundTimeRef
  /\ audioContextRef' = o.ctx
  /\ ctxCreated' = ctxCreated + IF o.created THEN 1 ELSE 0
  /\ cellHighlightsRef' = IF o.hl >= 0 /\ o.sound = "note"
                            THEN SetHighlight(cellHighlightsRef, o.hl, o.t)
                            ELSE cellHighlightsRef
  /\ columns' = IF variant = "dyn" THEN o.cols ELSE columns
  /\ last' = o
  /\ cellSizeRef' = IF variant \in GridVariants THEN cellSizeNow(Rows(variant))
                                               ELSE cellSizeRef
  /\ sound' = IF o.sound # "none" THEN Dispatch(o) ELSE sound

\* The state change of one pipeline invocation that decided o (an exception
\* thrown by playDrum leaves the handler before the time is recorded).
Apply(o) ==
  /\ shapesRef' = shapesRef \o Spawn(o.nShapes, nextId)
  /\ particlesRef' = particlesRef \o Spawn(o.nParticles, nextId + o.nShapes)
  /\ nextId' = nextId + o.nShapes + o.nParticles
  /\ lastSoundTimeRef' = IF o.sound # "none" /\ o.audio # "thrown"
                            THEN o.t ELSE lastSoundTimeRef
  /\ audioContextRef' = o.ctx
  /\ ctxCreated' = ctxCreated + IF o.created THEN 1 ELSE 0
  /\ cellHighlightsRef' = IF o.hl >= 0 THEN SetHighlight(cellHighlightsRef, o.hl, o.t)
                                       ELSE cellHighlightsRef
  /\ columns' = IF variant = "dyn" THEN o.cols ELSE columns
  /\ last' = o
  /\ cellSizeRef' = IF variant \in GridVariants THEN cellSizeNow(Rows(variant))
                                               ELSE cellSizeRef
  /\ sound' = IF o.sound # "none" THEN Dispatch(o) ELSE sound

\* Mutant: the debounced function does not wait.
Fire_NoWait(v) ==
  /\ variant = v
  /\ host.attached
  /\ pending # None
  /\ pending' = None
  /\ UNCHANGED << variant, mounted, win, canvas, scaleRef, now, animTimers, frameAt,
                  budget,
                  audioEnv, host >>

\* The debounced function fires: 16 ms have passed since the last raw event.
Fire(v) ==
  /\ variant = v
  /\ host.attached
  /\ pending # None
  /\ now - pending.at >= debounceWait
  /\ pending' = None
  /\ UNCHANGED << variant, mounted, win, canvas, scaleRef, now, animTimers, frameAt,
                  budget,
                  audioEnv, host >>

InteractPreset ==
  /\ Fire("preset")
  /\ \E fault \in Faults :
       Apply(Heard(Tagged(LogicPreset(pending.x, pending.y), pending.x, pending.y), fault))
InteractFixed ==
  /\ Fire("fixed")
  /\ \E fault \in Faults :
       Apply(Heard(Tagged(LogicFixed(pending.x, pending.y), pending.x, pending.y), fault))
InteractDyn ==
  /\ Fire("dyn")
  /\ \E fault \in Faults :
       Apply(Heard(Tagged(LogicDyn(pending.x, pending.y), pending.x, pending.y), fault))
InteractCell150 ==
  /\ Fire("cell150")
  /\ \E fault \in Faults :
       Apply(Heard(Tagged(LogicCell150(pending.x, pending.y), pending.x, pending.y), fault))
InteractCell100 ==
  /\ Fire("cell100")
  /\ \E fault \in Faults :
       Apply(Heard(Tagged(LogicCell100(pending.x, pending.y), pending.x, pending.y), fault))

\* The debounced function fires after the component left the page:
\* canvasRef.current is null and the handler returns before the pipeline.
FireDetached ==
  /\ ~host.attached
  /\ pending # None
  /\ now - pending.at >= debounceWait
  /\ pending' = None
  /\ UNCHANGED << variant, mounted, win, canvas, columns, scaleRef, shapesRef,
                  particlesRef, lastSoundTimeRef, cellHighlightsRef, now, animTimers,
                  nextId, frameAt, last, sound, budget, audioEnv, audioContextRef,
                  ctxCreated, host, cellSizeRef >>

Interact ==
  \/ InteractPreset
  \/ InteractFixed
  \/ InteractDyn
  \/ InteractCell150
  \/ InteractCell100

Next ==
  \/ Mount
  \/ \E sz \in Sizes : Resize(sz)
  \/ Frame
  \/ Tick
  \/ \E p \in Points : RawEvent(p.x, p.y)
  \/ Interact

Spec == Init /\ [][Next]_vars

----------------------------------------------------------------------------
(* The page after it has been in use for a while.  The history is replayed *)
(* with the operators above: a history is a sequence of rounds, each one   *)
(* interaction followed by a number of frames FrameDelay apart, ending at  *)
(* StartTime.  The interactions of the history spawn without sounding      *)
(* (a silent row, a cell beyond the note region), except in "cell100",     *)
(* where every spawning interaction is on a note cell and passes the gate. *)

WarmRounds == 41

\* 41 rounds of one interaction and one frame: the pools are full.
HistoryFull == [ i \in 1..WarmRounds |-> 1 ]

\* Two interactions, 50 frames apart, the second 48 frames ago: the first
\* one's shapes and the second one's particles are about to expire.
HistoryExpiring == << 50, 48 >>

RECURSIVE SumSeq(_)
SumSeq(q) == IF q = << >> THEN 0 ELSE Head(q) + SumSeq(Tail(q))

WarmInteraction(v, s) ==
  LET plays == v = "cell100" /\ s.t - s.lastSound > soundGate
  IN  [ s EXCEPT !.shapes = @ \o Spawn(ShapesPerHit(v), s.nextId),
                 !.particles = @ \o Spawn(ParticlesPerHit(v), s.nextId + ShapesPerHit(v)),
                 !.nextId = @ + ShapesPerHit(v) + ParticlesPerHit(v),
                 !.lastSound = IF plays THEN s.t ELSE @ ]

WarmFrame(v, s) ==
  [ s EXCEPT !.shapes = IF v = "cell100" THEN @ ELSE AnimateShapes(@),
             !.particles = AnimateParticles(@, v),
             !.t = @ + FrameDelay ]

RECURSIVE WarmFrames(_, _, _)
WarmFrames(v, s, n) ==
  IF n = 0 \/ s.t >= StartTime THEN s ELSE WarmFrames(v, WarmFrame(v, s), n - 1)

RECURSIVE Warm(_, _, _)
Warm(v, history, s) ==
  IF history = << >> \/ s.t >= StartTime THEN s
  ELSE Warm(v, Tail(history), WarmFrames(v, WarmInteraction(v, s), Head(history)))

WarmStart(history) ==
  [ shapes |-> << >>, particles |-> << >>, nextId |-> 1,
    t |-> StartTime - FrameDelay * SumSeq(history), lastSound |-> 0 ]

InitPool ==
  /\ variant \in Variants
  /\ mounted = TRUE
  /\ win = Landscape
  /\ canvas = Landscape
  /\ columns = IF variant \in DrumVariants THEN columnsLandscape
               ELSE IF variant = "dyn" THEN ColumnsOf(Landscape, rowsDyn) ELSE 0
  /\ scaleRef = IF variant \in DrumVariants
                  THEN generateScale(noteRows * (columnsLandscape - 2)) ELSE << >>
  /\ \E history \in { HistoryFull, HistoryExpiring } :
       LET s == Warm(variant, history, WarmStart(history))
       IN  /\ shapesRef = s.shapes
           /\ particlesRef = s.particles
           /\ nextId = s.nextId
           /\ lastSoundTimeRef = s.lastSound
           /\ audioContextRef = IF s.lastSound > 0 THEN 1 ELSE 0
           /\ ctxCreated = IF s.lastSound > 0 THEN 1 ELSE 0
  /\ audioEnv = WorkingAudio
  /\ host = [ attached |-> TRUE, resize |-> { 1 }, error |-> { 1 }, mounts |-> 1 ]
  /\ cellSizeRef = IF variant \in GridVariants
                     THEN [ num |-> Landscape.h, den |-> Rows(variant) ]
                     ELSE [ num |-> cellSizeInitial, den |-> 1 ]
  /\ cellHighlightsRef = IF variant \in GridVariants
                           THEN drawCellHighlights(NoHighlights, Rows(variant) * columns, StartTime)
                           ELSE NoHighlights
  /\ now = StartTime
  /\ pending = None
  /\ animTimers = << StartTime + FrameDelay >>
  /\ frameAt = IF variant \in GridVariants THEN StartTime ELSE 0
  /\ last = None
  /\ sound = None
  /\ budget = [ events |-> MaxEvents, resizes |-> MaxResizes ]

\* Pointer positions that matter to the pools: one inside every variant's
\* grid, one beyond the portrait window.
PoolPoints == { [x |-> 150, y |-> 150], [x |-> 1590, y |-> 150] }

NextPool ==
  \/ \E sz \in Sizes : Resize(sz)
  \/ Frame
  \/ Tick
  \/ \E p \in PoolPoints : RawEvent(p.x, p.y)
  \/ Interact

SpecPool == InitPool /\ [][NextPool]_vars

----------------------------------------------------------------------------
(* The variants with cell highlights, watched over the life of a           *)
(* highlight: besides the short ticks, time passes in long steps during    *)
(* which no frame needs to have run (a frame may be late by any amount).   *)

DecayStep == 250
MaxWaits == 3

Wait ==
  /\ mounted
  /\ now + DecayStep <= StartTime + MaxTicks * TickStep + MaxWaits * DecayStep
  /\ now' = now + DecayStep
  /\ UNCHANGED << variant, mounted, win, canvas, columns, scaleRef, shapesRef,
                  particlesRef, lastSoundTimeRef, cellHighlightsRef, pending,
                  animTimers, nextId, frameAt, last, sound, budget,
                  audioEnv, audioContextRef, ctxCreated, host, cellSizeRef >>

InitDecay == Init /\ variant \in GridVariants

NextDecay ==
  \/ Mount
  \/ Frame
  \/ Tick
  \/ Wait
  \/ \E p \in PoolPoints : RawEvent(p.x, p.y)
  \/ InteractPreset
  \/ InteractFixed
  \/ InteractDyn

SpecDecay == InitDecay /\ [][NextDecay]_vars

----------------------------------------------------------------------------
(* The page in any browser: the context may be insecure, AudioContext may  *)
(* be missing, and the audio calls may fail.                               *)

AudioPoints == { [x |-> 0, y |-> 150], [x |-> 150, y |-> 150] }

InitAudio == InitRefs /\ win = Landscape /\ audioEnv \in AudioEnvs

NextAudio ==
  \/ Mount
  \/ Frame
  \/ Tick
  \/ \E p \in AudioPoints : RawEvent(p.x, p.y)
  \/ Interact

SpecAudio == InitAudio /\ [][NextAudio]_vars

(***************************************************************************)
(* The debounce on a fine clock: time passes in steps shorter than the     *)
(* debounce wait, so that raw events arrive, and the debounced function    *)
(* may fire, at instants closer together than 16 ms.                       *)
(***************************************************************************)
FineStep == 8
MaxFineTicks == 6

FineTick ==
  /\ host.mounts > 0
  /\ \A i \in 1..Len(animTimers) : animTimers[i] > now
  /\ now + FineStep <= StartTime + MaxFineTicks * FineStep
  /\ now' = now + FineStep
  /\ UNCHANGED << variant, mounted, win, canvas, columns, scaleRef, shapesRef,
                  particlesRef, lastSoundTimeRef, cellHighlightsRef, pending,
                  animTimers, nextId, frameAt, last, sound, budget,
                  audioEnv, audioContextRef, ctxCreated, host, cellSizeRef >>

InitDebounce == Init /\ win = Landscape

NextDebounce ==
  \/ Mount
  \/ Frame
  \/ FineTick
  \/ \E p \in AudioPoints : RawEvent(p.x, p.y)
  \/ Interact

SpecDebounce == InitDebounce /\ [][NextDebounce]_vars

(***************************************************************************)
(* The volume: pointers from the top edge to the bottom edge of the        *)
(* canvas, in a note column.                                               *)
(***************************************************************************)
VolumePoints == { [x |-> 150, y |-> 0], [x |-> 150, y |-> 150],
                  [x |-> 150, y |-> 350], [x |-> 150, y |-> 690] }

InitVolume == Init /\ win = Landscape

NextVolume ==
  \/ Mount
  \/ Frame
  \/ Tick
  \/ \E p \in VolumePoints : RawEvent(p.x, p.y)
  \/ Interact

SpecVolume == InitVolume /\ [][NextVolume]_vars

(***************************************************************************)
(* The drum-zone layouts: the two variants with drum columns, through      *)
(* mounts and resizes between the 16-column and the 9-column grid.         *)
(***************************************************************************)
LayoutPoints == { [x |-> 150, y |-> 150] }

InitLayout == Init /\ variant \in DrumVariants

NextLayout ==
  \/ Mount
  \/ \E sz \in Sizes : Resize(sz)
  \/ Frame
  \/ Tick
  \/ \E p \in LayoutPoints : RawEvent(p.x, p.y)
  \/ InteractPreset
  \/ InteractFixed

SpecLayout == InitLayout /\ [][NextLayout]_vars

(***************************************************************************)
(* Spawning: pointers inside the window on a note cell, a drum cell, a     *)
(* margin row and beyond the last column of the grid (x = 420 on the 450   *)
(* px wide window, x = 1590 on the 1600 px wide one).                      *)
(***************************************************************************)
SpawnPoints == { [x |-> 150, y |-> 150], [x |-> 0, y |-> 150], [x |-> 150, y |-> 50],
                 [x |-> 420, y |-> 150], [x |-> 1590, y |-> 150] }

NextSpawn ==
  \/ Mount
  \/ Frame
  \/ Tick
  \/ \E p \in SpawnPoints : p.x < win.w /\ p.y < win.h /\ RawEvent(p.x, p.y)
  \/ Interact

SpecSpawn == Init /\ [][NextSpawn]_vars

(***************************************************************************)
(* The sound gate on a clock whose steps meet the threshold: interactions  *)
(* follow each other at multiples of GateStep, so that one of them runs    *)
(* exactly soundGate ms after the last sound.                              *)
(***************************************************************************)
GateStep == 50
MaxGateTicks == 4

GateTick ==
  /\ host.mounts > 0
  /\ \A i \in 1..Len(animTimers) : animTimers[i] > now
  /\ now + GateStep <= StartTime + MaxGateTicks * GateStep
  /\ now' = now + GateStep
  /\ UNCHANGED << variant, mounted, win, canvas, columns, scaleRef, shapesRef,
                  particlesRef, lastSoundTimeRef, cellHighlightsRef, pending,
                  animTimers, nextId, frameAt, last, sound, budget,
                  audioEnv, audioContextRef, ctxCreated, host, cellSizeRef >>

InitGate ==
  /\ InitRefs
  /\ audioEnv = WorkingAudio
  /\ win = Landscape

NextGate ==
  \/ Mount
  \/ Frame
  \/ GateTick
  \/ \E p \in AudioPoints : RawEvent(p.x, p.y)
  \/ Interact

SpecGate == InitGate /\ [][NextGate]_vars

(***************************************************************************)
(* The component's lifetime: the effects are mounted, torn down (and may   *)
(* be run again), the component leaves the page; timers armed before the   *)
(* teardown still run.                                                     *)
(***************************************************************************)
InitLife == Init /\ win = Landscape

NextLife ==
  \/ Mount
  \/ Cleanup
  \/ Unmount
  \/ Frame
  \/ FrameDetached
  \/ Tick
  \/ \E p \in AudioPoints : RawEvent(p.x, p.y)
  \/ Interact
  \/ FireDetached

SpecLife == InitLife /\ [][NextLife]_vars


----------------------------------------------------------------------------
(* Properties *)

\* A step in which the debounced function fired and the pipeline ran.
FireStep == pending # None /\ pending' = None

SoundZone(o) == o.zone \in {"note", "drum"}

\* C2: of two successive pipeline invocations that both land in
\* sound-producing cells (note or drum) less than 100 ms apart, the first
\* one made with the gate open (the last sound more than 100 ms before it),
\* exactly one dispatches a sound: the first does, the second does not.
C2_RateLimitedPair ==
  [][ ( /\ FireStep
        /\ last # None
        /\ SoundZone(last) /\ SoundZone(last')
        /\ last'.t - last.t < 100
        /\ last.t - last.lastBefore > 100 )
      => ( last.sound # "none" /\ last'.sound = "none" ) ]_vars

\* The second interaction of such a pair has run and was silenced.
C2_Witness ==
  /\ last # None /\ sound # None
  /\ SoundZone(last)
  /\ last.sound = "none"
  /\ last.lastBefore = sound.t
  /\ last.t - sound.t < 100

\* C3: the gate is process-wide: any two successive dispatches (playSound
\* or playDrum, whatever the cells) are at least 100 ms apart.
C3_ProcessWideGate ==
  [][ ( sound # None /\ sound' # sound ) => sound'.t - sound.t >= 100 ]_vars

\* A note was dispatched after an earlier dispatch in another cell.
C3_Witness ==
  /\ last # None /\ sound # None
  /\ last.sound = "note" /\ sound.kind = "note"
  /\ last.lastBefore > 0
  /\ last.t - last.lastBefore >= 100

\* C4: in the variants with drum columns, an interaction that maps to
\* column 0 or column columns - 1 never calls playSound.
C4_DrumColumnNeverPlaysNote ==
  ( /\ variant \in DrumVariants
    /\ last # None
    /\ (last.cellX = 0 \/ last.cellX = last.cols - 1) )
  => last.sound # "note"

\* The rightmost column was hit and the drum played.
C4_Witness ==
  /\ variant \in DrumVariants
  /\ last # None
  /\ last.cellX = last.cols - 1
  /\ last.sound = "drum"

\* C5: in the orientation-preset variant, once mounted, the stored scale
\* has 5 * (columns - 2) entries: 70 in landscape (16 columns), 35 in
\* portrait (9 columns), after any resizes.
C5_ScaleLengthMatchesLayout ==
  ( variant = "preset" /\ mounted )
  => /\ Len(scaleRef) = 5 * (columns - 2)
     /\ columns = IF win.h > win.w THEN 9 ELSE 16
     /\ Len(scaleRef) = IF win.h > win.w THEN 35 ELSE 70

\* After a resize the layout is the portrait one.
C5_Witness ==
  /\ variant = "preset" /\ mounted
  /\ budget.resizes < MaxResizes
  /\ columns = 9 /\ Len(scaleRef) = 35

\* C6: a resize from landscape to portrait sets, in the one handler step,
\* the column count to 9 and the scale to 35 notes, and every pipeline
\* invocation that runs in portrait sees 9 columns and 35 notes, also when
\* its raw event arrived before the resize.
C6_ResizeRegeneratesScale ==
  [][ /\ ( /\ variant = "preset"
           /\ win' # win /\ win.h <= win.w /\ win'.h > win'.w )
         => ( columns' = 9 /\ Len(scaleRef') = 35 )
      /\ ( variant = "preset" /\ FireStep /\ win.h > win.w )
         => ( last'.cols = 9 /\ last'.scaleLen = 35 ) ]_vars

\* A pointer position of the landscape window (x beyond the portrait
\* width) was processed after the resize to portrait.
C6_Witness ==
  /\ variant = "preset"
  /\ last # None
  /\ win.h > win.w
  /\ last.x >= win.w
  /\ last.cols = 9 /\ last.scaleLen = 35
  /\ budget.resizes < MaxResizes

\* C7: whenever playSound is called, the frequency handed to it is a
\* defined entry of the scale in use: its index lies in [0, scale length).
C7_NoteIndexInRange ==
  ( last # None /\ last.sound = "note" )
  => ( last.freq # Undefined /\ last.freq >= 0 /\ last.freq < last.scaleLen )

\* A note played from the variant that looks the scale up unguarded.
C7_Witness ==
  /\ variant = "fixed"
  /\ last # None
  /\ last.sound = "note"
  /\ last.freq = 0

\* A step in which animate ran (a frame, or the first call at mount).
FrameStep == animTimers' # animTimers

\* C1 as stated: in every reachable state the shape pool holds at most 100
\* entries and the particle pool at most 100 (200 in the fixed-cell-size
\* variants).
C1_PoolsCappedAlways ==
  /\ Len(shapesRef) <= 100
  /\ Len(particlesRef) <= IF variant \in {"cell150", "cell100"} THEN 200 ELSE 100

\* C1 amended: at the end of every frame step the shape pool holds at most
\* 100 entries and the particle pool at most 100 (200 in the
\* fixed-cell-size variants).
C1_PoolsCappedAfterFrame ==
  [][ FrameStep =>
        /\ Len(shapesRef') <= 100
        /\ Len(particlesRef') <=
             IF variant \in {"cell150", "cell100"} THEN 200 ELSE 100 ]_vars

\* A frame has cut a pool that an interaction had pushed over its cap back
\* to exactly the cap, the newest entry being the interaction's last spawn.
C1_Witness ==
  /\ last # None
  /\ \/ /\ last.nShapes > 0
        /\ Len(shapesRef) = 100
        /\ shapesRef[100].id = nextId - 1 - last.nParticles
        /\ shapesRef[100].life < 100
     \/ /\ variant = "cell100"
        /\ Len(particlesRef) = 200
        /\ particlesRef[200].id = nextId - 1
        /\ particlesRef[200].life < 100

\* The serial numbers of a pool's entities, and each with its life.
Ids(pool) == { pool[i].id : i \in 1..Len(pool) }
Lives(pool) == { << pool[i].id, pool[i].life >> : i \in 1..Len(pool) }

\* Every entity of pool is, after a frame step, either in pool2 with its
\* life lowered by exactly decay, or not in pool2; it is not in pool2 when
\* its lowered life is <= 0.
AgedBy(pool, pool2, decay) ==
  LET before == Lives(pool)
      ids == Ids(pool)
      ids2 == Ids(pool2)
  IN  /\ \A j \in 1..Len(pool2) :
           pool2[j].id \in ids => << pool2[j].id, pool2[j].life + decay >> \in before
      /\ \A i \in 1..Len(pool) :
           pool[i].life - decay <= 0 => pool[i].id \notin ids2

\* Every entity of pool2 was in pool or has been spawned by this step.
NoneReturns(pool, pool2) ==
  LET ids == Ids(pool)
  IN  \A j \in 1..Len(pool2) : pool2[j].id \in ids \/ pool2[j].id >= nextId

\* C8: every frame step lowers the life of each shape by 0.01 and of each
\* particle by 0.02; an entity whose life is <= 0 at the end of a frame
\* step is not in its pool then, and no entity that has left its pool is
\* in it in a later state (entities are told apart by their serial numbers,
\* which are never shared).
C8_LifeDecreasesUntilRemoved ==
  [][ /\ FrameStep => /\ AgedBy(shapesRef, shapesRef', 1)
                      /\ AgedBy(particlesRef, particlesRef', 2)
      /\ \A j \in 1..Len(shapesRef') : shapesRef'[j].life > 0
      /\ \A j \in 1..Len(particlesRef') : particlesRef'[j].life > 0
      /\ NoneReturns(shapesRef, shapesRef')
      /\ NoneReturns(particlesRef, particlesRef')
      /\ Cardinality(Ids(shapesRef')) = Len(shapesRef')
      /\ Cardinality(Ids(particlesRef')) = Len(particlesRef') ]_vars

\* The three shapes of the older interaction and the two particles of the
\* newer one have expired and left their pools; the newer shapes live on.
C8_Witness ==
  /\ variant = "preset"
  /\ last = None
  /\ particlesRef = << >>
  /\ Len(shapesRef) = 3
  /\ \A j \in 1..3 : shapesRef[j].id > 3 /\ shapesRef[j].life = 50

\* C9: for a highlight triggered at time t and last drawn by a frame at
\* time t + e, the opacity is 1 at e = 0, 0 at e = 500 and 0 for every
\* e > 500, it is 1 - e/500 in between, and the scale is
\* 1 + 0.2 * (1 - e/500) for e up to 500; a highlight not yet drawn has
\* opacity 1 and scale 1.2; over successive frames the opacity of a
\* highlight never rises.
C9_HighlightDecay ==
  [][ /\ \A j \in DOMAIN cellHighlightsRef'.at :
           LET ch == cellHighlightsRef'.at[j]
               e == frameAt' - ch.time
           IN  /\ e < 0 => ( ch.alpha = 1000 /\ ch.scale = 12000 )
               /\ e = 0 => ch.alpha = 1000
               /\ e = 500 => ch.alpha = 0
               /\ e > 500 => ch.alpha = 0
               /\ ( e >= 0 /\ e <= 500 ) =>
                    /\ 500 * ch.alpha = 1000 * (500 - e)
                    /\ 500 * ch.scale = 10000 * 500 + 2000 * (500 - e)
      /\ FrameStep =>
           \A j \in DOMAIN cellHighlightsRef'.at :
             j \in DOMAIN cellHighlightsRef.at
               => cellHighlightsRef'.at[j].alpha <= cellHighlightsRef.at[j].alpha ]_vars

\* A frame has drawn a highlight exactly 500 ms after its trigger.
C9_Witness ==
  \E j \in DOMAIN cellHighlightsRef.at :
    /\ frameAt - cellHighlightsRef.at[j].time = 500
    /\ cellHighlightsRef.at[j].alpha = 0
    /\ cellHighlightsRef.at[j].scale = 10000

\* C11: in the variants with drum columns, on a 1600 x 700 canvas (7 rows,
\* 16 columns, cells of 100) an interaction at (150, 150) maps to column 1,
\* row 1, note index 0 and the base frequency 130.81 Hz; in general a note
\* cell (row, col) is handed scale[(row - 1) * (columns - 2) + (col - 1)].
C11_NoteCellToScaleEntry ==
  [][ ( FireStep /\ variant \in DrumVariants ) =>
        /\ ( canvas = [w |-> 1600, h |-> 700] /\ pending.x = 150 /\ pending.y = 150 )
             => /\ last'.cols = 16
                /\ last'.cellX = 1 /\ last'.cellY = 1
                /\ last'.zone = "note"
                /\ ToneOf(last'.freq) = [ base |-> 13081, twelfths |-> 0 ]
        /\ last'.zone = "note"
             => /\ last'.freq =
                     (last'.cellY - 1) * (last'.cols - 2) + (last'.cellX - 1)
                /\ last'.freq = At(scaleRef, last'.freq) ]_vars

\* The tone of (150, 150) was played on the 16-column layout.
C11_Witness ==
  /\ variant \in DrumVariants
  /\ last # None
  /\ last.x = 150 /\ last.y = 150
  /\ last.cols = 16 /\ last.cellX = 1 /\ last.cellY = 1
  /\ last.sound = "note"
  /\ sound.freq = 0

\* C12: in the variants with drum columns, an interaction that maps to
\* column 0 or the last column in a row other than the top and bottom one
\* (such as (0, 150) on a 1600 x 700 canvas), made with the gate open,
\* calls playDrum -- one dispatch, and no note --, records the interaction
\* time as the last sound time and writes no highlight.
C12_DrumColumnPlaysDrum ==
  [][ ( /\ FireStep /\ variant \in DrumVariants
        /\ now - lastSoundTimeRef > 100
        /\ \/ ( canvas = [w |-> 1600, h |-> 700] /\ pending.x = 0 /\ pending.y = 150 )
           \/ ( /\ last'.cellX \in { 0, last'.cols - 1 }
                /\ last'.cellY >= 1 /\ last'.cellY <= 5 ) )
      => /\ last'.sound = "drum"
         /\ sound'.kind = "drum" /\ sound'.t = now /\ sound'.freq = Undefined
         /\ sound' # sound
         /\ lastSoundTimeRef' = now
         /\ cellHighlightsRef' = cellHighlightsRef
         /\ last'.hl = -1 ]_vars

\* The drum was hit at (0, 150).
C12_Witness ==
  /\ variant \in DrumVariants
  /\ last # None
  /\ last.x = 0 /\ last.y = 150
  /\ last.cellX = 0 /\ last.cellY = 1
  /\ last.sound = "drum"
  /\ lastSoundTimeRef = last.t
  /\ sound # None
  /\ sound.kind = "drum" /\ sound.t = last.t /\ sound.freq = Undefined

\* The cell of invocation o lies outside [0, columnCount) x [0, rowCount)
\* of the grid drawn on canvas cv.
OutsideGrid(o, cv) ==
  LET rowCount == IF variant = "cell150" THEN cv.h \div 150
                  ELSE IF variant = "cell100" THEN cv.h \div 100
                  ELSE IF variant = "dyn" THEN 8 ELSE 7
  IN  o.cellX < 0 \/ o.cellX >= o.cols \/ o.cellY < 0 \/ o.cellY >= rowCount

\* An invocation outside the grid makes no sound, writes no highlight and
\* leaves the last-sound time as it is.
OutsideIsSilent ==
  /\ last'.sound = "none"
  /\ sound' = sound
  /\ last'.hl = -1
  /\ cellHighlightsRef' = cellHighlightsRef
  /\ lastSoundTimeRef' = lastSoundTimeRef

C14_MarginRowsAreSilent ==
  [][ ( /\ FireStep /\ variant \in DrumVariants
        /\ \/ pending.y * 7 < canvas.h
           \/ pending.y * 7 >= 6 * canvas.h
           \/ last'.cellY \in { 0, 6 } )
      => /\ last'.cellY \in { 0, 6 }
         /\ last'.sound = "none"
         /\ sound' = sound
         /\ last'.hl = -1
         /\ cellHighlightsRef' = cellHighlightsRef
         /\ lastSoundTimeRef' = lastSoundTimeRef ]_vars

\* The bottom cell of the left drum column was hit with the gate open, and
\* nothing sounded.
C14_Witness ==
  /\ variant \in DrumVariants
  /\ last # None
  /\ last.x = 0 /\ last.y = 690
  /\ last.cellX = 0 /\ last.cellY = 6
  /\ last.t - last.lastBefore > 100
  /\ last.sound = "none"
  /\ lastSoundTimeRef = last.lastBefore

\* C15: when the page is not in a secure context, no interaction's sound
\* operation, note or drum, constructs an audio context or starts an
\* oscillator: the sound is skipped.
C15_InsecureContextSkipsSound ==
  [][ ( FireStep /\ ~audioEnv.secure )
      => /\ last'.audio \in { "none", "skipped" }
         /\ audioContextRef' = audioContextRef
         /\ ctxCreated' = ctxCreated ]_vars

\* C16: no failure of the audio subsystem (AudioContext missing, its
\* construction or the creation of a node throwing) leaves the interaction
\* handler as an exception, for playSound and for playDrum.
C16_AudioFailureAbsorbed ==
  [][ FireStep => last'.audio # "thrown" ]_vars

\* C17: at most one audio context is ever constructed: there is none
\* before the first dispatched sound, a call constructs one only when none
\* is held, and once one is held every later call keeps and uses it.
C17_OneAudioContext ==
  [][ /\ ctxCreated' <= 1
      /\ sound' = None => ( audioContextRef' = 0 /\ ctxCreated' = 0 )
      /\ audioContextRef # 0 => audioContextRef' = audioContextRef
      /\ FireStep =>
           /\ last'.created => ( audioContextRef = 0 /\ audioContextRef' = 1 )
           /\ last'.audio = "started" => ( last'.ctx = 1 /\ audioContextRef' = 1 )
           /\ ( /\ last'.sound # "none" /\ audioContextRef = 0
                /\ audioEnv.supported /\ ~audioEnv.faulty
                /\ ( audioEnv.secure \/ last'.sound = "drum" ) )
                => ( last'.created /\ ctxCreated' = 1 ) ]_vars

\* A second sound was started on the context the first one had made.
C17_Witness ==
  /\ last # None
  /\ last.audio = "started"
  /\ ~last.created
  /\ last.ctx = 1
  /\ last.lastBefore > 0
  /\ audioContextRef = 1 /\ ctxCreated = 1

\* The cell an invocation mapped to is a note cell of its variant.
NoteCell(o) ==
  IF variant \in DrumVariants
    THEN o.cellX >= 1 /\ o.cellX <= o.cols - 2 /\ o.cellY >= 1 /\ o.cellY <= 5
  ELSE IF variant = "dyn"
    THEN o.cellX >= 0 /\ o.cellX < o.cols /\ o.cellY >= 0 /\ o.cellY < rowsDyn
  ELSE FALSE

\* C10 as stated: a highlight is written only by an interaction that
\* actually played a note tone.
C10_HighlightOnlyOnPlayedTone ==
  ( last # None /\ last.hl >= 0 ) => last.sound = "note"

\* C10 amended: an interaction writes a highlight (opacity 1, scale 1.2,
\* timestamp now) exactly when it maps to a note cell, whether or not the
\* gate let the tone through; any other interaction leaves the table as is.
C10_HighlightOnNoteCell ==
  [][ FireStep =>
        IF NoteCell(last')
          THEN /\ last'.hl = last'.cellY * last'.cols + last'.cellX
               /\ last'.hl \in DOMAIN cellHighlightsRef'.at
               /\ cellHighlightsRef'.at[last'.hl] =
                    [ alpha |-> 1000, scale |-> 12000, time |-> now ]
               /\ \A j \in DOMAIN cellHighlightsRef.at \ {last'.hl} :
                    /\ j \in DOMAIN cellHighlightsRef'.at
                    /\ cellHighlightsRef'.at[j] = cellHighlightsRef.at[j]
          ELSE cellHighlightsRef' = cellHighlightsRef ]_vars

\* A note cell was highlighted while the gate kept its tone silent.
C10_Witness ==
  /\ last # None
  /\ NoteCell(last)
  /\ last.sound = "none"
  /\ last.hl \in DOMAIN cellHighlightsRef.at
  /\ cellHighlightsRef.at[last.hl].time = last.t

\* A step that armed the next frame: a timer due one frame delay from now
\* was appended to the armed ones.
Rearmed ==
  /\ Len(animTimers') >= Len(animTimers)
  /\ Len(animTimers') >= 1
  /\ animTimers'[Len(animTimers')] = now + FrameDelay

\* C18 as stated: every executed frame step arms its successor, so that no
\* frame step ever runs without scheduling the next one and the render
\* loop never stops.  (Refuted: a frame step that runs after the component
\* left the page finds canvasRef.current null and returns before the
\* setTimeout.)
C18_EveryFrameRearms == [][ FrameStep => Rearmed ]_vars

\* C18, amended: once the loop is started and as long as the canvas is
\* attached, an animate timer is always armed and every executed frame
\* step arms its successor.
C18_FrameRearmsWhileAttached ==
  /\ []( ( host.attached /\ host.mounts > 0 ) => animTimers # << >> )
  /\ [][ ( FrameStep /\ host.attached ) => Rearmed ]_vars

\* A frame ran after the mount, on an attached canvas, and left its
\* successor armed.
C18_Witness ==
  /\ host.attached
  /\ host.mounts > 0
  /\ now > StartTime
  /\ frameAt = now
  /\ animTimers # << >>
  /\ animTimers[Len(animTimers)] = now + FrameDelay

\* The effects currently mounted (each registers one listener of its kind).
MountedEffects == IF mounted THEN 1 ELSE 0

\* C19: the resize and error listeners a mount registered are removed by
\* the matching teardown: once the effects are torn down no listener of
\* either kind is registered, and the registered listeners of each kind
\* never outnumber the currently mounted effects.
C19_ListenersRemovedOnTeardown ==
  /\ Cardinality(host.resize) <= MountedEffects
  /\ Cardinality(host.error) <= MountedEffects
  /\ ~mounted => ( host.resize = {} /\ host.error = {} )
  /\ mounted => ( host.resize = { host.mounts } /\ host.error = { host.mounts } )

\* The effects were mounted twice and torn down twice, the second time with
\* the component leaving the page, and no listener is registered.
C19_Witness ==
  /\ ~mounted
  /\ ~host.attached
  /\ host.mounts >= 2
  /\ host.resize = {}
  /\ host.error = {}

\* C20: the debounce spaces the pipeline's invocations: any two consecutive
\* invocations of handleInteractionLogic are at least 16 ms apart, whenever
\* the raw events arrive.
C20_InvocationsSpaced ==
  [][ ( FireStep /\ last # None ) => last'.t - last.t >= debounceWait ]_vars

\* Two consecutive invocations as close together as the clock allows: the
\* first one played at last.lastBefore, the second ran less than one clock
\* step beyond the debounce wait later.
C20_Witness ==
  /\ last # None
  /\ last.lastBefore > 0
  /\ last.t - last.lastBefore >= debounceWait
  /\ last.t - last.lastBefore < debounceWait + FineStep

\* Frequencies are kept exactly, as base * 2^(twelfths/12): on one base the
\* higher exponent is the higher frequency, and twice a frequency is the
\* same base twelve twelfths up.
Higher(a, b) == a.base = b.base /\ a.twelfths > b.twelfths
Doubled(a) == [ a EXCEPT !.twelfths = @ + 12 ]

\* C21: entry i of the generated scale is baseFreq * 2^(i/12) with baseFreq
\* 130.81: entry 0 is the base frequency, the entries increase strictly and
\* entry i + 12 is twice entry i.
C21_ScaleIsEqualTempered ==
  \A i \in 1..Len(scaleRef) :
    /\ ToneOf(scaleRef[i]) = [ base |-> 13081, twelfths |-> i - 1 ]
    /\ i < Len(scaleRef) => Higher(ToneOf(scaleRef[i + 1]), ToneOf(scaleRef[i]))
    /\ i + 12 <= Len(scaleRef)
         => ToneOf(scaleRef[i + 12]) = Doubled(ToneOf(scaleRef[i]))

\* A scale of more than an octave has been generated.
C21_Witness ==
  /\ mounted
  /\ Len(scaleRef) > 12
  /\ ToneOf(scaleRef[1]) = [ base |-> 13081, twelfths |-> 0 ]
  /\ ToneOf(scaleRef[13]) = [ base |-> 13081, twelfths |-> 12 ]

\* C22: the volume handed to playSound / playDrum is
\* max(0.1, 1 - 0.9 * y / canvasHeight): for a pointer y in [0, canvasHeight]
\* it lies in [0.1, 1], is 1 at y = 0 and does not increase as y increases.
C22_VolumeFromHeight ==
  [][ ( FireStep /\ last'.sound # "none"
        /\ pending.y >= 0 /\ pending.y <= canvas.h )
      => LET v == sound'.volume
         IN  /\ v.den = 10 * canvas.h
             /\ v.num * 10 = Max(v.den, 10 * v.den - 9 * pending.y * 10)
             /\ 10 * v.num >= v.den
             /\ v.num <= v.den
             /\ pending.y = 0 => v.num = v.den
             /\ \A y2 \in pending.y..canvas.h :
                  Volume(y2, canvas.h).num <= v.num ]_vars

\* After an earlier sound, a note is played from the top edge (y = 0) at
\* volume 1.
C22_Witness ==
  /\ last # None
  /\ last.sound = "note"
  /\ last.y = 0
  /\ last.lastBefore > 0
  /\ sound.volume.num = sound.volume.den

\* The pixel at the centre of cell number c (of a column or of a row).
Centre(c) == ((2 * c + 1) * canvas.h) \div (2 * rows)

\* What the pipeline of a drum-zone variant decides for the centre of cell
\* (col, row).
AtCell(col, row) ==
  IF variant = "preset" THEN LogicPreset(Centre(col), Centre(row))
                        ELSE LogicFixed(Centre(col), Centre(row))

\* The interior note cells of the current layout.
NoteCells == (1..(columns - 2)) \X (1..noteRows)

\* C23: in the drum-zone layout the interior note cells (rows 1..5, columns
\* 1..columns-2) map one-to-one onto the note indices
\* [0, 5 * (columns - 2)) by (row - 1) * (columns - 2) + (col - 1), with 16
\* columns and with 9.
C23_NoteIndexBijection ==
  ( mounted /\ variant \in DrumVariants ) =>
    LET hit == [ c \in NoteCells |-> AtCell(c[1], c[2]) ]
        indices == { hit[c].freq : c \in NoteCells }
    IN  /\ \A c \in NoteCells :
             /\ hit[c].zone = "note"
             /\ hit[c].cellX = c[1]
             /\ hit[c].cellY = c[2]
             /\ hit[c].freq = (c[2] - 1) * (columns - 2) + (c[1] - 1)
        /\ indices = 0..(noteRows * (columns - 2) - 1)
        /\ Cardinality(indices) = Cardinality(NoteCells)
        /\ Len(scaleRef) = noteRows * (columns - 2)

\* The 9-column layout is in force, after the 16-column one, and a note of
\* its grid has been played.
C23_Witness ==
  /\ mounted
  /\ variant = "preset"
  /\ columns = 9
  /\ budget.resizes < MaxResizes
  /\ last # None
  /\ last.cols = 9
  /\ last.zone = "note"

\* The entities one step appended to a pool: the pool grew at its end by
\* that many fresh entities.
Pushed(before, after, k) ==
  /\ Len(after) = Len(before) + k
  /\ SubSeq(after, 1, Len(before)) = before
  /\ \A i \in (Len(before) + 1)..Len(after) : after[i].life = lifeStart

\* C24 as stated: every interaction appends a fixed number of entities in
\* 2..5 to each pool (3 shapes and 2 particles in the grid-highlight
\* variants), whatever the cell and whether or not the sound gate is open.
\* (The particle-only variant, which has no shape pool, is asked for its
\* particles only.  Refuted: outside its grid it appends nothing.)
C24_EveryInteractionSpawns ==
  [][ FireStep
      => /\ \E k \in 2..5 : Pushed(particlesRef, particlesRef', k)
         /\ variant # "cell100" => \E k \in 2..5 : Pushed(shapesRef, shapesRef', k)
         /\ variant \in GridVariants
              => /\ Pushed(shapesRef, shapesRef', 3)
                 /\ Pushed(particlesRef, particlesRef', 2) ]_vars

\* C24, amended: an interaction appends 3 shapes and 2 particles in the
\* grid-highlight variants and 3 shapes and 3 particles in the 150 px
\* variant, whatever the cell (note, drum, silent margin, outside the grid)
\* and whether or not the sound gate is open; the particle-only variant
\* has no shapes and appends 5 particles for a pointer inside its grid and
\* nothing for a pointer outside it.
C24_SpawnCounts ==
  [][ FireStep
      => IF variant = "cell100"
           THEN /\ shapesRef' = shapesRef
                /\ Pushed(particlesRef, particlesRef',
                          IF OutsideGrid(last', canvas) THEN 0 ELSE 5)
           ELSE /\ Pushed(shapesRef, shapesRef', 3)
                /\ Pushed(particlesRef, particlesRef',
                          IF variant = "cell150" THEN 3 ELSE 2) ]_vars

\* With the sound gate closed, an interaction in a drum column has appended
\* its 3 shapes and 2 particles.
C24_Witness ==
  /\ variant \in DrumVariants
  /\ last # None
  /\ last.zone = "drum"
  /\ last.sound = "none"
  /\ last.lastBefore > 0
  /\ last.t - last.lastBefore <= soundGate
  /\ Len(shapesRef) >= 3
  /\ shapesRef[Len(shapesRef)].id = nextId - 3
  /\ particlesRef # << >>
  /\ particlesRef[Len(particlesRef)].id = nextId - 1

\* pool2 is what a frame step leaves of pool: of the entities that are
\* still alive after the decay, the newest ones, at most max of them, in
\* spawn order (the order of the serial numbers).
KeepsNewest(pool, pool2, decay, max) ==
  LET liveIds == { pool[i].id : i \in { j \in 1..Len(pool) : pool[j].life - decay > 0 } }
      kept == Ids(pool2)
  IN  /\ Len(pool2) <= max
      /\ kept \subseteq liveIds
      /\ Cardinality(kept) = Len(pool2)
      /\ Len(pool2) = Min(Cardinality(liveIds), max)
      /\ \A a \in liveIds \ kept : \A b \in kept : a < b
      /\ \A j \in 1..(Len(pool2) - 1) : pool2[j].id < pool2[j + 1].id

\* C25: at the end of every frame step each pool holds at most its maximum
\* number of entities, and what a trim leaves are exactly the most
\* recently spawned live entities, in spawn order: the oldest are
\* discarded.
C25_TrimKeepsNewest ==
  [][ FrameStep =>
        /\ variant # "cell100" => KeepsNewest(shapesRef, shapesRef', 1, 100)
        /\ KeepsNewest(particlesRef, particlesRef', 2,
                       IF variant \in {"cell150", "cell100"} THEN 200 ELSE 100) ]_vars

\* A frame has trimmed the shape pool to its maximum: the newest shape is
\* the last one the latest interaction pushed, the oldest one kept is still
\* alive and the shapes are in spawn order.
C25_Witness ==
  /\ last # None
  /\ last.nShapes = 3
  /\ Len(shapesRef) = MAX_SHAPES
  /\ shapesRef[MAX_SHAPES].id = nextId - 1 - last.nParticles
  /\ shapesRef[MAX_SHAPES].life = lifeStart - shapeDecay
  /\ shapesRef[1].life > 0
  /\ shapesRef[1].id < shapesRef[2].id

\* C26: whenever the cell size is read, by the pipeline to map the pointer
\* to a cell or by a frame to draw the grid and the highlights, it is the
\* current canvas height divided by the row count, however resizes, frames
\* and interactions interleave: the initial 150 and a value a resize made
\* stale are never used.
C26_CellSizeIsCurrent ==
  [][ /\ ( FireStep /\ variant \in GridVariants )
           => /\ cellSizeRef' = [ num |-> canvas.h, den |-> Rows(variant) ]
              /\ last'.cellX = (pending.x * Rows(variant)) \div canvas.h
              /\ last'.cellY = (pending.y * Rows(variant)) \div canvas.h
      /\ ( FrameStep /\ variant \in GridVariants )
           => ( cellSizeRef' = [ num |-> (canvas.h)', den |-> Rows(variant) ] ) ]_vars

\* A resize has left cellSizeRef stale and the debounced function is about
\* to run the pipeline before any frame has refreshed it.
C26_Witness ==
  /\ variant \in GridVariants
  /\ mounted
  /\ budget.resizes < MaxResizes
  /\ cellSizeRef.num # canvas.h
  /\ pending # None
  /\ now - pending.at >= debounceWait

\* The cell at which drawCellHighlights draws entry i of the highlight
\* array when the grid has cols columns (i % columns, floor(i / columns)).
DrawnAt(i, cols) == [ cellX |-> i % cols, cellY |-> i \div cols ]

\* The highlight the last interaction set is, after this step, an entry
\* that drawCellHighlights draws: inside the array and not yet faded.
LastHighlightDrawn ==
  /\ last # None
  /\ last.hl >= 0
  /\ last.hl < cellHighlightsRef'.len
  /\ last.hl \in DOMAIN cellHighlightsRef'.at
  /\ cellHighlightsRef'.at[last.hl].time = last.t
  /\ cellHighlightsRef'.at[last.hl].alpha > 0

\* C27: a highlight set by an interaction in cell (row, col) is drawn, for
\* as long as it is active, at that same cell (row, col), also when the
\* column count changes while it decays.  (Refuted: the entry is stored
\* under cellY * columns + cellX and drawn at (i % columns,
\* floor(i / columns)) with the column count of the frame.)
C27_HighlightStaysInCell ==
  [][ ( FrameStep /\ variant \in GridVariants /\ LastHighlightDrawn )
      => DrawnAt(last.hl, columns') = [ cellX |-> last.cellX, cellY |-> last.cellY ] ]_vars

\* C28: at every moment at most one render-loop chain is alive: at most one
\* timer or animation-frame callback for animate is pending, also when the
\* mount effect is run, cleaned up and run again.  (Refuted: the cleanup
\* cancels nothing, and the effect's second run calls animate() while the
\* first run's timer is still armed.)
C28_SingleRenderChain == Len(animTimers) <= 1

\* A step in which a raw event arrived.
RawStep == budget'.events < budget.events

\* C29: the 16 ms gate is a trailing debounce: a raw event restarts the wait
\* and processes nothing; the pipeline is invoked only once 16 ms have
\* passed without a new raw event, with the coordinates of the last raw
\* event (the earlier events of a burst are dropped).
C29_TrailingDebounce ==
  [][ /\ RawStep
           => /\ pending' # None
              /\ pending'.at = now
              /\ last' = last
              /\ shapesRef' = shapesRef
              /\ particlesRef' = particlesRef
              /\ sound' = sound
      /\ ( FireStep /\ host.attached )
           => /\ now - pending.at >= debounceWait
              /\ last'.t = now
              /\ last'.x = pending.x
              /\ last'.y = pending.y ]_vars

\* A burst of two raw events less than 16 ms apart has ended in a single
\* invocation, 16 ms after its second event: both events are consumed and
\* one interaction has spawned, for the pointer of the note column.
C29_Witness ==
  /\ variant \in GridVariants
  /\ budget.events = MaxEvents - 2
  /\ pending = None
  /\ last # None
  /\ last.x = 150
  /\ last.t = StartTime + 3 * FineStep
  /\ nextId = 1 + ShapesPerHit(variant) + ParticlesPerHit(variant)

\* C30: the sound gate is strict: an interaction in a sound-producing cell
\* exactly 100 ms after the last dispatched sound dispatches nothing and
\* leaves the last-sound time unchanged; a sound is dispatched only when
\* strictly more than 100 ms have passed; the last-sound time never
\* decreases.
C30_StrictGate ==
  [][ /\ lastSoundTimeRef' >= lastSoundTimeRef
      /\ ( FireStep /\ SoundZone(last') /\ now - lastSoundTimeRef = 100 )
           => /\ last'.sound = "none"
              /\ sound' = sound
              /\ lastSoundTimeRef' = lastSoundTimeRef
      /\ ( FireStep /\ last'.sound # "none" )
           => /\ now - lastSoundTimeRef > 100
              /\ lastSoundTimeRef' = now
      /\ ( FireStep /\ SoundZone(last') /\ now - lastSoundTimeRef > 100 )
           => last'.sound # "none"
      /\ sound' # sound => ( FireStep /\ last'.sound # "none" ) ]_vars

\* An interaction in a sound-producing cell ran exactly 100 ms after the
\* last sound and was silenced.
C30_Witness ==
  /\ last # None
  /\ sound # None
  /\ SoundZone(last)
  /\ last.sound = "none"
  /\ last.t - sound.t = 100
  /\ lastSoundTimeRef = sound.t

====
